---- MODULE Spec2Model ----
(***************************************************************************)
(* State-machine model of src/App.tsx (the VORTEX single-page site).       *)
(*                                                                         *)
(* Every React component's useState cell is a variable; every event        *)
(* handler (with the state updates React batches for it and the effects    *)
(* that follow its render) is one action.  The asynchronous handleSubmit   *)
(* of the contact form is split at its awaits: the invocations suspended   *)
(* at an await are the elements of `calls`.                                *)
(*                                                                         *)
(* Text is a sequence of one-character strings, so that trim, the e-mail   *)
(* regular expression, toLowerCase and includes are computed character by  *)
(* character.  Characters outside ASCII are written by name ("e_grave",    *)
(* "em_dash"); the accented letters of the user-visible messages are       *)
(* written without their accents.                                          *)
(***************************************************************************)
EXTENDS Integers, Sequences, FiniteSets, TLC

VARIABLES
    \* ---- ContactForm (src/App.tsx 1057-1068)
    name, company, email, budget, message, maintenance,
    loading, success, error, hp,
    calls,        \* handleSubmit invocations suspended at an await, oldest first
    \* ---- App (src/App.tsx 58-64, 83-88)
    navOpen, progress, activeMini,
    hashListener, \* whether the hashchange listener of the effect is attached
    navEvent,     \* history: the last event that concerned the menu
    \* ---- window metrics read by handleScroll at the latest scroll/resize event
    scrollY, scrollHeight, innerHeight,
    \* ---- ReservationSimulator (697-701)
    resName, people, time, confirmed,
    \* ---- RealEstateMiniSite (758-759)
    query, filters,
    \* ---- SaaSMiniSite (841-842)
    plan, trial,
    dirtyLeft,    \* history: the panel most recently left with edited state
    \* ---- CanvasParticles (418-506)
    canvas,       \* "idle" before the effect ran, then "mounted", "unmounted"
    viewport,     \* window.innerWidth and window.innerHeight, in pixels
    width, height, particles, raf,
    lastFrameId,  \* the last handle requestAnimationFrame returned
    pendingFrames,\* the handles of the frame callbacks the browser holds
    resizeListener, \* whether onResize is attached to the window
    \* ---- CTABox (1245-1254)
    slots,
    slotTimer     \* whether the interval of the effect is running

formFields == <<name, company, email, budget, message, maintenance, hp>>
formVars   == <<name, company, email, budget, message, maintenance,
                loading, success, error, hp, calls>>
navVars    == <<navOpen, hashListener, navEvent>>
scrollVars == <<progress, scrollY, scrollHeight, innerHeight>>
resVars    == <<resName, people, time, confirmed>>
estateVars == <<query, filters>>
saasVars   == <<plan, trial>>
miniVars   == <<resName, people, time, confirmed, query, filters, plan, trial>>
canvasVars == <<canvas, viewport, width, height, particles, raf,
                lastFrameId, pendingFrames, resizeListener>>
ctaVars    == <<slots, slotTimer>>
vars == <<name, company, email, budget, message, maintenance,
          loading, success, error, hp, calls,
          navOpen, progress, activeMini, hashListener, navEvent,
          scrollY, scrollHeight, innerHeight,
          resName, people, time, confirmed, query, filters, plan, trial,
          dirtyLeft, canvas, viewport, width, height, particles, raf,
          lastFrameId, pendingFrames, resizeListener, slots, slotTimer>>

(***************************************************************************)
(* Option values: null is None, a set message is Some(m).                  *)
(***************************************************************************)
None == <<>>
Some(m) == <<m>>

(***************************************************************************)
(* Text helpers.                                                           *)
(***************************************************************************)
Empty == <<>>

\* JavaScript white space, as far as the input alphabet has any.
IsWhiteSpace(c) == c = " "

RECURSIVE TrimStart(_)
TrimStart(s) ==
    IF s = <<>> THEN <<>>
    ELSE IF IsWhiteSpace(Head(s)) THEN TrimStart(Tail(s)) ELSE s

RECURSIVE TrimEnd(_)
TrimEnd(s) ==
    IF s = <<>> THEN <<>>
    ELSE IF IsWhiteSpace(s[Len(s)]) THEN TrimEnd(SubSeq(s, 1, Len(s) - 1)) ELSE s

\* A faulty trim that leaves the text as it is.
TrimNothing(s) == s

\* String.prototype.trim
Trim(s) == TrimEnd(TrimStart(s))

\* JavaScript truthiness of a string: non-empty.
Truthy(s) == s # <<>>

(***************************************************************************)
(* ContactForm: validation (src/App.tsx 1070-1080).                        *)
(***************************************************************************)
ErrName    == "Nom requis."
ErrEmail   == "Email invalide."
ErrBot     == "Bot detecte."
ErrSend    == "Erreur d'envoi -- veuillez reessayer plus tard."
ErrNetwork == "Erreur de reseau -- verifiez votre connexion."
OkMessage  == "Merci ! Votre demande a ete envoyee. Nous vous contactons sous 24h."

\* \S : one character that is not white space
NonSpace(c) == ~IsWhiteSpace(c)

\* \S+ matched from position i: the positions right after each possible match
\* (the matcher may give characters back, so every non-empty run counts).
NonSpaceRun(s, i) ==
    { j \in (i + 1)..(Len(s) + 1) : \A k \in i..(j - 1) : NonSpace(s[k]) }

\* A faulty pattern without the dot and what follows it: /\S+@\S+/
ValidateEmailNoDot(e) ==
    \E i \in 1..Len(e) :
        \E a \in NonSpaceRun(e, i) :
            /\ a <= Len(e) /\ e[a] = "@"
            /\ NonSpaceRun(e, a + 1) # {}

\* /\S+@\S+\.\S+/.test(e): a match may start anywhere in e.
ValidateEmail(e) ==
    \E i \in 1..Len(e) :
        \E a \in NonSpaceRun(e, i) :
            /\ a <= Len(e) /\ e[a] = "@"
            /\ \E d \in NonSpaceRun(e, a + 1) :
                  /\ d <= Len(e) /\ e[d] = "."
                  /\ NonSpaceRun(e, d + 1) # {}

\* A faulty validation that tests the honeypot before the name and the e-mail.
ValidateHoneypotFirst(n, e, h) ==
    IF Truthy(h) THEN Some(ErrBot)
    ELSE IF ~Truthy(Trim(n)) THEN Some(ErrName)
    ELSE IF ~ValidateEmail(e) THEN Some(ErrEmail)
    ELSE None

\* A faulty validation without the honeypot check.
ValidateNoHoneypot(n, e, h) ==
    IF ~Truthy(Trim(n)) THEN Some(ErrName)
    ELSE IF ~ValidateEmail(e) THEN Some(ErrEmail)
    ELSE None

\* The three early returns of handleSubmit, in their order: the message of the
\* first check that fails, None when all pass.
Validate(n, e, h) ==
    IF ~Truthy(Trim(n)) THEN Some(ErrName)
    ELSE IF ~ValidateEmail(e) THEN Some(ErrEmail)
    ELSE IF Truthy(h) THEN Some(ErrBot)
    ELSE None

(***************************************************************************)
(* ContactForm: the request (src/App.tsx 1086-1102).  A template string is *)
(* the concatenation of its parts.                                         *)
(***************************************************************************)
ApiKey   == "WEB3FORMS_API_KEY_PLACEHOLDER"
Endpoint == "https://api.web3forms.com/submit"

\* A literal piece of text, as a text of one unit.
Lit(t) == <<t>>

\* A faulty payload whose email property is filled from the name.
PayloadSwapsFields ==
    [ api_key |-> ApiKey,
      subject |-> Lit("Nouveau lead -- VORTEX (")
                  \o (IF Truthy(company) THEN company ELSE Lit("sans entreprise"))
                  \o Lit(")"),
      name    |-> name,
      email   |-> name,
      company |-> company,
      message |-> message
                  \o Lit("\n\nMaintenance: ")
                  \o Lit(IF maintenance THEN "Oui" ELSE "Non")
                  \o Lit("\nBudget presume: ") \o Lit(budget) \o Lit("EUR") ]

\* The object of lines 1086-1094, which JSON.stringify writes out property by
\* property; the record stands for that JSON text.
Payload ==
    [ api_key |-> ApiKey,
      subject |-> Lit("Nouveau lead -- VORTEX (")
                  \o (IF Truthy(company) THEN company ELSE Lit("sans entreprise"))
                  \o Lit(")"),
      name    |-> name,
      email   |-> email,
      company |-> company,
      message |-> message
                  \o Lit("\n\nMaintenance: ")
                  \o Lit(IF maintenance THEN "Oui" ELSE "Non")
                  \o Lit("\nBudget presume: ") \o Lit(budget) \o Lit("EUR") ]

\* fetch(...): the POST leaves, and the invocation waits for the response.
Fetch(body) == [ url |-> Endpoint, method |-> "POST", body |-> body, stage |-> "fetch" ]

RemoveAt(s, i) == SubSeq(s, 1, i - 1) \o SubSeq(s, i + 1, Len(s))

(***************************************************************************)
(* Inputs the user (or a script filling the hidden field) can give.        *)
(***************************************************************************)
NameInputs    == { <<>>, <<" ">>, <<"a">> }
EmailInputs   == { <<>>,
                   <<"a", "@", "a">>,
                   <<"@", "a", ".", "a">>,
                   <<"a", " ", "@", "a", ".", "a">>,
                   <<"a", "@", "a", ".">>,
                   <<"a", "@", "a", ".", "a">> }
CompanyInputs == { <<>>, <<"c">> }
MessageInputs == { <<>>, <<"m">> }
BudgetOptions == { "749", "1500", "3000" }
HpInputs      == { <<>>, <<"x">> }

\* The number of requests the model lets be in flight at once.
MaxInFlight == 2

(***************************************************************************)
(* ContactForm: the onChange handlers (src/App.tsx 1130-1178).             *)
(***************************************************************************)
otherVars == <<navOpen, progress, activeMini, hashListener, navEvent,
               scrollY, scrollHeight, innerHeight,
               resName, people, time, confirmed, query, filters, plan, trial,
               dirtyLeft, canvasVars, ctaVars>>

SetName(v) ==
    /\ name' = v
    /\ UNCHANGED <<company, email, budget, message, maintenance,
                   loading, success, error, hp, calls, otherVars>>

SetEmail(v) ==
    /\ email' = v
    /\ UNCHANGED <<name, company, budget, message, maintenance,
                   loading, success, error, hp, calls, otherVars>>

SetCompany(v) ==
    /\ company' = v
    /\ UNCHANGED <<name, email, budget, message, maintenance,
                   loading, success, error, hp, calls, otherVars>>

SetBudget(v) ==
    /\ budget' = v
    /\ UNCHANGED <<name, company, email, message, maintenance,
                   loading, success, error, hp, calls, otherVars>>

SetMessage(v) ==
    /\ message' = v
    /\ UNCHANGED <<name, company, email, budget, maintenance,
                   loading, success, error, hp, calls, otherVars>>

SetMaintenance(v) ==
    /\ maintenance' = v
    /\ UNCHANGED <<name, company, email, budget, message,
                   loading, success, error, hp, calls, otherVars>>

SetHp(v) ==
    /\ hp' = v
    /\ UNCHANGED <<name, company, email, budget, message, maintenance,
                   loading, success, error, calls, otherVars>>

\* A faulty handleSubmit without the setSuccess(null) of line 1075.
HandleSubmitKeepsSuccess ==
    /\ IF Validate(name, email, hp) # None
       THEN /\ error' = Validate(name, email, hp)
            /\ UNCHANGED <<loading, calls>>
       ELSE /\ Len(calls) < MaxInFlight
            /\ error' = None
            /\ loading' = TRUE
            /\ calls' = Append(calls, Fetch(Payload))
    /\ UNCHANGED <<formFields, success, otherVars>>

\* A faulty handleSubmit that calls setLoading(true) before the validations.
HandleSubmitLoadsFirst ==
    /\ success' = None
    /\ loading' = TRUE
    /\ IF Validate(name, email, hp) # None
       THEN /\ error' = Validate(name, email, hp)
            /\ UNCHANGED calls
       ELSE /\ Len(calls) < MaxInFlight
            /\ error' = None
            /\ calls' = Append(calls, Fetch(Payload))
    /\ UNCHANGED <<formFields, otherVars>>

\* A faulty handleSubmit that also closes the mobile menu.
HandleSubmitClosesMenu ==
    /\ success' = None
    /\ IF Validate(name, email, hp) # None
       THEN /\ error' = Validate(name, email, hp)
            /\ UNCHANGED <<loading, calls>>
       ELSE /\ Len(calls) < MaxInFlight
            /\ error' = None
            /\ loading' = TRUE
            /\ calls' = Append(calls, Fetch(Payload))
    /\ navOpen' = FALSE /\ hashListener' = FALSE
    /\ UNCHANGED <<formFields, progress, activeMini, navEvent,
                   scrollY, scrollHeight, innerHeight,
                   resName, people, time, confirmed, query, filters, plan, trial,
                   dirtyLeft, canvasVars, ctaVars>>

(***************************************************************************)
(* ContactForm.handleSubmit (src/App.tsx 1072-1123).                       *)
(***************************************************************************)
\* handleSubmit up to its first await: the two resets, the three checks, and,
\* when they pass, setLoading(true) and the fetch.
HandleSubmit ==
    /\ success' = None
    /\ IF Validate(name, email, hp) # None
       THEN /\ error' = Validate(name, email, hp)
            /\ UNCHANGED <<loading, calls>>
       ELSE /\ Len(calls) < MaxInFlight
            /\ error' = None
            /\ loading' = TRUE
            /\ calls' = Append(calls, Fetch(Payload))
    /\ UNCHANGED <<formFields, otherVars>>

\* A faulty form whose submit button is never disabled.
SubmitWhileLoading == HandleSubmit

\* The form is submitted through its submit button, which is disabled while
\* loading (src/App.tsx 1189-1195).
Submit ==
    /\ ~loading
    /\ HandleSubmit

\* The fetch of invocation i resolves with res.ok: the else branch, then finally.
FetchResolvedOk(i) ==
    /\ i \in 1..Len(calls) /\ calls[i].stage = "fetch"
    /\ success' = Some(OkMessage)
    /\ name' = Empty
    /\ company' = Empty
    /\ email' = Empty
    /\ message' = Empty
    /\ maintenance' = FALSE
    /\ budget' = "749"
    /\ loading' = FALSE
    /\ calls' = RemoveAt(calls, i)
    /\ UNCHANGED <<hp, error, otherVars>>

\* The fetch resolves with !res.ok: the invocation now awaits res.text().
FetchResolvedNotOk(i) ==
    /\ i \in 1..Len(calls) /\ calls[i].stage = "fetch"
    /\ calls' = [calls EXCEPT ![i].stage = "text"]
    /\ UNCHANGED <<formFields, loading, success, error, otherVars>>

\* Faulty endings of a failed request.
TextResolvedKeepsLoading(i) ==
    /\ i \in 1..Len(calls) /\ calls[i].stage = "text"
    /\ error' = Some(ErrSend)
    /\ calls' = RemoveAt(calls, i)
    /\ UNCHANGED <<formFields, loading, success, otherVars>>

TextResolvedRetries(i) ==
    /\ i \in 1..Len(calls) /\ calls[i].stage = "text"
    /\ error' = Some(ErrSend)
    /\ calls' = [calls EXCEPT ![i].stage = "fetch"]
    /\ UNCHANGED <<formFields, loading, success, otherVars>>

\* res.text() resolves: the error of the !res.ok branch, then finally.
TextResolved(i) ==
    /\ i \in 1..Len(calls) /\ calls[i].stage = "text"
    /\ error' = Some(ErrSend)
    /\ loading' = FALSE
    /\ calls' = RemoveAt(calls, i)
    /\ UNCHANGED <<formFields, success, otherVars>>

\* A faulty catch path that is not followed by the finally block.
AwaitRejectedKeepsLoading(i) ==
    /\ i \in 1..Len(calls)
    /\ error' = Some(ErrNetwork)
    /\ calls' = RemoveAt(calls, i)
    /\ UNCHANGED <<formFields, loading, success, otherVars>>

\* The awaited promise (the fetch, or res.text()) rejects: catch, then finally.
AwaitRejected(i) ==
    /\ i \in 1..Len(calls)
    /\ error' = Some(ErrNetwork)
    /\ loading' = FALSE
    /\ calls' = RemoveAt(calls, i)
    /\ UNCHANGED <<formFields, success, otherVars>>

NextForm ==
    \/ \E v \in NameInputs : SetName(v)
    \/ \E v \in EmailInputs : SetEmail(v)
    \/ \E v \in CompanyInputs : SetCompany(v)
    \/ \E v \in BudgetOptions : SetBudget(v)
    \/ \E v \in MessageInputs : SetMessage(v)
    \/ \E v \in BOOLEAN : SetMaintenance(v)
    \/ \E v \in HpInputs : SetHp(v)
    \/ Submit
    \/ \E i \in 1..MaxInFlight : FetchResolvedOk(i)
    \/ \E i \in 1..MaxInFlight : FetchResolvedNotOk(i)
    \/ \E i \in 1..MaxInFlight : TextResolved(i)
    \/ \E i \in 1..MaxInFlight : AwaitRejected(i)

(***************************************************************************)
(* App: scroll progress (src/App.tsx 50, 61, 67-80).  A number is the      *)
(* fraction n/d with d > 0; window metrics are whole numbers of a unit.    *)
(***************************************************************************)
Frac(a, b) == [n |-> a, d |-> b]
Zero == Frac(0, 1)
One  == Frac(1, 1)

Leq(x, y) == x.n * y.d <= y.n * x.d
MathMin(x, y) == IF Leq(x, y) THEN x ELSE y
MathMax(x, y) == IF Leq(x, y) THEN y ELSE x

\* A faulty clamp that bounds nothing.
ClampNothing(v, a, b) == v

\* clamp = (v, a = 0, b = 1) => Math.max(a, Math.min(b, v))
Clamp(v, a, b) == MathMax(a, MathMin(b, v))

\* handleScroll: the progress it sets for the metrics it reads.
HandleScroll(y, sh, ih) ==
    LET total    == sh - ih
        scrolled == IF total > 0 THEN Frac(y, total) ELSE Zero
    IN  Clamp(scrolled, Zero, One)

\* The largest page height, in units, and how far a scroll position may
\* overshoot either end of the page (rubber-band scrolling).
MaxScrollHeight == 8
Overscroll == 2

pageSide == <<navOpen, activeMini, hashListener, navEvent,
              resName, people, time, confirmed, query, filters, plan, trial,
              dirtyLeft, canvasVars, ctaVars>>

\* A scroll event: the position changed, and handleScroll runs.
ScrollEvent(y) ==
    /\ y \in (0 - Overscroll)..(scrollHeight - innerHeight + Overscroll)
    /\ scrollY' = y
    /\ progress' = HandleScroll(y, scrollHeight, innerHeight)
    /\ UNCHANGED <<scrollHeight, innerHeight, formVars, pageSide>>

\* A resize event: the viewport and the laid-out page have new heights, the
\* browser keeps the position within the page, and handleScroll runs.
ResizeEvent(sh, ih) ==
    /\ 1 <= ih /\ ih <= sh /\ sh <= MaxScrollHeight
    /\ scrollHeight' = sh
    /\ innerHeight' = ih
    /\ scrollY' = IF scrollY > sh - ih THEN sh - ih
                  ELSE IF scrollY < 0 THEN 0 ELSE scrollY
    /\ progress' = HandleScroll(scrollY', sh, ih)
    /\ UNCHANGED <<formVars, pageSide>>

NextScroll ==
    \/ \E y \in (0 - Overscroll)..(MaxScrollHeight + Overscroll) : ScrollEvent(y)
    \/ \E sh \in 1..MaxScrollHeight : \E ih \in 1..MaxScrollHeight : ResizeEvent(sh, ih)

(***************************************************************************)
(* App and Nav: the mobile menu (src/App.tsx 58, 82-88, 235-274).          *)
(***************************************************************************)
\* A faulty effect that attaches the listener while the menu is closed.
RouteListenerInverted(open) == ~open

\* The effect of lines 83-88 after a render with navOpen = open: its cleanup
\* has removed the old listener, and a new one is attached only if open.
RouteListener(open) == open

SetNavOpen(v, by) ==
    /\ navOpen' = v
    /\ hashListener' = RouteListener(v)
    /\ navEvent' = by

nonNav == <<formVars, progress, scrollY, scrollHeight, innerHeight, activeMini,
            resName, people, time, confirmed, query, filters, plan, trial,
            dirtyLeft, canvasVars, ctaVars>>

\* The menu button: setNavOpen(!navOpen).
ToggleNav ==
    /\ SetNavOpen(~navOpen, "toggle")
    /\ UNCHANGED nonNav

\* A link of the mobile menu, rendered only while the menu is open.
ClickMenuLink ==
    /\ navOpen
    /\ SetNavOpen(FALSE, "menuLink")
    /\ UNCHANGED nonNav

\* A hashchange event (a followed anchor, the back button, an edited URL):
\* handleRoute runs if it is attached; otherwise nothing hears the event.
HashChange ==
    /\ IF hashListener
       THEN SetNavOpen(FALSE, "handleRoute")
       ELSE /\ navEvent' = "hashchange"
            /\ UNCHANGED <<navOpen, hashListener>>
    /\ UNCHANGED nonNav

(***************************************************************************)
(* Portfolio and the three mini-sites (src/App.tsx 515-577, 697-842).      *)
(***************************************************************************)
MiniSiteKeys == { "restaurant", "realestate", "saas" }

InitMinis ==
    /\ resName = Empty /\ people = 2 /\ time = "20:00" /\ confirmed = FALSE
    /\ query = Empty /\ filters = [beds |-> 2, maxPrice |-> 500000]
    /\ plan = "pro" /\ trial = FALSE

\* A faulty portfolio that keeps its panels mounted, and hides the others.
KeepMinis == UNCHANGED miniVars

\* A mini-site's state lives while it is mounted: the state of a panel that
\* is not rendered is written as its initial state, which is the state it
\* mounts with.
RemountMinis ==
    /\ resName' = Empty /\ people' = 2 /\ time' = "20:00" /\ confirmed' = FALSE
    /\ query' = Empty /\ filters' = [beds |-> 2, maxPrice |-> 500000]
    /\ plan' = "pro" /\ trial' = FALSE

\* A faulty rendering whose third line tests the wrong tag.
RenderedPanelsSlip ==
    (IF activeMini = "restaurant" THEN {"RestaurantMiniSite"} ELSE {})
    \cup (IF activeMini = "realestate" THEN {"RealEstateMiniSite"} ELSE {})
    \cup (IF activeMini = "realestate" THEN {"SaaSMiniSite"} ELSE {})

\* The demo panels the three conditionals of lines 574-576 render.
RenderedPanels ==
    (IF activeMini = "restaurant" THEN {"RestaurantMiniSite"} ELSE {})
    \cup (IF activeMini = "realestate" THEN {"RealEstateMiniSite"} ELSE {})
    \cup (IF activeMini = "saas" THEN {"SaaSMiniSite"} ELSE {})

\* setActiveMini(k) and the render that follows it: a change of tab unmounts
\* the panel shown and mounts the panel of k.
SetActiveMini(k) ==
    /\ activeMini' = k
    /\ IF k = activeMini THEN UNCHANGED miniVars ELSE RemountMinis
    /\ dirtyLeft' = IF k # activeMini /\ ~InitMinis THEN activeMini ELSE dirtyLeft

nonMini == <<formVars, navOpen, hashListener, navEvent,
             progress, scrollY, scrollHeight, innerHeight, canvasVars, ctaVars>>

\* A faulty tab button that also closes the mobile menu.
ClickMiniTabClosesMenu(k) ==
    /\ SetActiveMini(k)
    /\ SetNavOpen(FALSE, navEvent)
    /\ UNCHANGED <<formVars, progress, scrollY, scrollHeight, innerHeight,
                   canvasVars, ctaVars>>

\* One of the buttons made from `minis` (line 537).
ClickMiniTab(k) ==
    /\ SetActiveMini(k)
    /\ UNCHANGED nonMini

\* One of the three buttons above the preview (lines 553-570).
ClickPreviewButton(k) ==
    /\ SetActiveMini(k)
    /\ UNCHANGED nonMini

\* The Portfolio link of the navigation bar (line 212).
ClickNavPortfolio ==
    /\ SetActiveMini("restaurant")
    /\ UNCHANGED nonMini

(***************************************************************************)
(* ReservationSimulator (src/App.tsx 697-751).                             *)
(***************************************************************************)
ResNameInputs == { <<>>, <<"n">> }
PeopleOptions == 1..6
TimeInputs    == { "20:00", "21:30" }

outsideMinis == <<formVars, navOpen, hashListener, navEvent, activeMini,
                  progress, scrollY, scrollHeight, innerHeight,
                  dirtyLeft, canvasVars, ctaVars>>

\* The form is rendered while the restaurant panel is, and not confirmed.
ReservationFormShown == activeMini = "restaurant" /\ ~confirmed

SetResName(v) ==
    /\ ReservationFormShown
    /\ resName' = v
    /\ UNCHANGED <<people, time, confirmed, estateVars, saasVars, outsideMinis>>

SetPeople(v) ==
    /\ ReservationFormShown
    /\ people' = v
    /\ UNCHANGED <<resName, time, confirmed, estateVars, saasVars, outsideMinis>>

SetTime(v) ==
    /\ ReservationFormShown
    /\ time' = v
    /\ UNCHANGED <<resName, people, confirmed, estateVars, saasVars, outsideMinis>>

\* A faulty reserve button without the test of the name.
ClickReserveUnchecked ==
    /\ ReservationFormShown
    /\ confirmed' = TRUE
    /\ UNCHANGED <<resName, people, time, estateVars, saasVars, outsideMinis>>

\* The reserve button: an alert and nothing else if the name is empty.
ClickReserve ==
    /\ ReservationFormShown
    /\ IF ~Truthy(resName) THEN UNCHANGED confirmed ELSE confirmed' = TRUE
    /\ UNCHANGED <<resName, people, time, estateVars, saasVars, outsideMinis>>

(***************************************************************************)
(* RealEstateMiniSite (src/App.tsx 757-833).                               *)
(***************************************************************************)
sampleHouses ==
    << [ id |-> 1, price |-> 420000, beds |-> 2,
         title |-> << "L","o","f","t"," ","l","u","m","i","n","e","u","x"," ",
                      "em_dash"," ","3"," ","p","i","e_grave","c","e","s" >> ],
       [ id |-> 2, price |-> 680000, beds |-> 4,
         title |-> << "M","a","i","s","o","n"," ","f","a","m","i","l","i","a",
                      "l","e"," ","em_dash"," ","J","a","r","d","i","n" >> ],
       [ id |-> 3, price |-> 210000, beds |-> 0,
         title |-> << "S","t","u","d","i","o"," ","c","e","n","t","r","e","-",
                      "v","i","l","l","e" >> ] >>

UpperCase == << "A","B","C","D","E","F","G","H","I","J","K","L","M",
                "N","O","P","Q","R","S","T","U","V","W","X","Y","Z" >>
LowerCase == << "a","b","c","d","e","f","g","h","i","j","k","l","m",
                "n","o","p","q","r","s","t","u","v","w","x","y","z" >>

\* String.prototype.toLowerCase, character by character.
ToLowerCase(s) ==
    [ i \in 1..Len(s) |->
        IF \E u \in 1..Len(UpperCase) : UpperCase[u] = s[i]
        THEN LowerCase[CHOOSE u \in 1..Len(UpperCase) : UpperCase[u] = s[i]]
        ELSE s[i] ]

\* String.prototype.includes
Includes(s, sub) ==
    \E i \in 0..(Len(s) - Len(sub)) : SubSeq(s, i + 1, i + Len(sub)) = sub

\* A faulty predicate: the bedroom count must equal the chosen one.
MatchesExactBeds(h) ==
    /\ h.price <= filters.maxPrice
    /\ h.beds = filters.beds
    /\ Includes(ToLowerCase(h.title), ToLowerCase(query))

\* A faulty predicate: a case-sensitive search.
MatchesCaseSensitive(h) ==
    /\ h.price <= filters.maxPrice
    /\ h.beds >= filters.beds
    /\ Includes(h.title, query)

\* The predicate of the filter of line 766.
Matches(h) ==
    /\ h.price <= filters.maxPrice
    /\ h.beds >= filters.beds
    /\ Includes(ToLowerCase(h.title), ToLowerCase(query))

\* const results = sampleHouses.filter(...)
Results == SelectSeq(sampleHouses, Matches)

\* The cards of results.map(...) (lines 801-812), by listing id, and the
\* message of line 813; both exist while the panel is rendered.
ResultCards ==
    IF activeMini = "realestate"
    THEN [ i \in 1..Len(Results) |-> Results[i].id ]
    ELSE <<>>

NoResultsMessage == activeMini = "realestate" /\ Len(Results) = 0

QueryInputs == { <<>>,
                 <<"l","o","f","t">>,
                 <<"L","O","F","T">>,
                 <<"i">>,
                 <<"J","A","R">>,
                 <<"S","t">>,
                 <<"z">> }
BedsOptions == { 0, 1, 2, 3 }

\* The range input of lines 819-827.
SliderMin  == 50000
SliderMax  == 2000000
SliderStep == 10000
\* How many steps above its minimum the model moves the slider.
MaxSliderSteps == 64
PriceInputs ==
    { p \in { SliderMin + SliderStep * k : k \in 0..MaxSliderSteps } : p <= SliderMax }

SetQuery(v) ==
    /\ activeMini = "realestate"
    /\ query' = v
    /\ UNCHANGED <<filters, resVars, saasVars, outsideMinis>>

SetBeds(v) ==
    /\ activeMini = "realestate"
    /\ filters' = [filters EXCEPT !.beds = v]
    /\ UNCHANGED <<query, resVars, saasVars, outsideMinis>>

SetMaxPrice(v) ==
    /\ activeMini = "realestate"
    /\ filters' = [filters EXCEPT !.maxPrice = v]
    /\ UNCHANGED <<query, resVars, saasVars, outsideMinis>>

(***************************************************************************)
(* SaaSMiniSite (src/App.tsx 840-900).                                     *)
(***************************************************************************)
Plans == { "free", "pro", "enterprise" }

SetPlan(v) ==
    /\ activeMini = "saas"
    /\ plan' = v
    /\ UNCHANGED <<trial, resVars, estateVars, outsideMinis>>

SetTrial(v) ==
    /\ activeMini = "saas"
    /\ trial' = v
    /\ UNCHANGED <<plan, resVars, estateVars, outsideMinis>>

NextPage ==
    \/ ToggleNav
    \/ ClickMenuLink
    \/ HashChange
    \/ \E k \in MiniSiteKeys : ClickMiniTab(k)
    \/ \E k \in MiniSiteKeys : ClickPreviewButton(k)
    \/ ClickNavPortfolio
    \/ \E v \in ResNameInputs : SetResName(v)
    \/ \E v \in PeopleOptions : SetPeople(v)
    \/ \E v \in TimeInputs : SetTime(v)
    \/ ClickReserve
    \/ \E v \in QueryInputs : SetQuery(v)
    \/ \E v \in BedsOptions : SetBeds(v)
    \/ \E v \in PriceInputs : SetMaxPrice(v)
    \/ \E v \in Plans : SetPlan(v)
    \/ \E v \in BOOLEAN : SetTrial(v)

(***************************************************************************)
(* CanvasParticles (418-509).  `width` and `height` are pixels, as in the  *)
(* source; a particle's coordinates and velocity are counted in hundredths *)
(* of a pixel, the precision of the velocity bounds of lines 452-453.  The *)
(* fields r, hue and alpha of a particle are read by draw() only and are   *)
(* left out, and so is what draw() paints.                                 *)
(***************************************************************************)
Density == 45000
Margin == 10
Scale == 100

\* The window sizes a load or a resize event may bring, in pixels.
Viewports == { [w |-> 100, h |-> 100], [w |-> 150, h |-> 150],
               [w |-> 300, h |-> 150], [w |-> 300, h |-> 225] }

\* Math.round of the quotient n / d of two naturals: floor(n / d + 1/2).
MathRound(n, d) == (2 * n + d) \div (2 * d)

\* Lines 429 and 498.
ParticleCount(w, h) == MathRound(w * h, Density)

\* Math.random() returns k / RandomDen for a k of RandomDraws.
RandomDen == 2
RandomDraws == 0 .. RandomDen - 1

\* rand(min, max) for the outcome k of Math.random() (lines 432-434).
Rand(min, max, k) == min + (k * (max - min)) \div RandomDen

\* The outcomes of the calls of rand that one reset() makes.
Draws == [x : RandomDraws, y : RandomDraws, vx : RandomDraws,
          vy : RandomDraws, maxLife : RandomDraws]

\* The resets in which every call of Math.random() has the same outcome.
EqualDraws ==
    { d \in Draws : d.x = d.y /\ d.y = d.vx /\ d.vx = d.vy /\ d.vy = d.maxLife }

\* The draws of the resets of up to n particles, one element per particle.
DrawSeqs(D, n) == [1 .. n -> D]

\* reset() (449-459), hence also the constructor (447).
Reset(d, w, h) ==
    [ x       |-> Rand(0, w * Scale, d.x),
      y       |-> Rand(0, h * Scale, d.y),
      vx      |-> Rand(-12, 12, d.vx),
      vy      |-> Rand(-8, 8, d.vy),
      life    |-> 0,
      maxLife |-> Rand(120, 600, d.maxLife) ]

\* Lines 461-463.
Moved(p) == [p EXCEPT !.x = p.x + p.vx, !.y = p.y + p.vy, !.life = p.life + 1]

\* Line 464.
Expire(p, d, w, h) == IF p.life > p.maxLife THEN Reset(d, w, h) ELSE p

\* The condition of line 465.
OutOfBounds(p, w, h) ==
    \/ p.x < -(Margin * Scale) \/ p.x > (w + Margin) * Scale
    \/ p.y < -(Margin * Scale) \/ p.y > (h + Margin) * Scale

\* Line 465.
Leave(p, d, w, h) == IF OutOfBounds(p, w, h) THEN Reset(d, w, h) ELSE p

\* A faulty step() without the test of line 465.
StepKeepsStray(p, d, w, h) == Expire(Moved(p), d, w, h)

\* step() (460-466); d holds the draws of the reset it may call.  The second
\* test reads the particle the first one left.
Step(p, d, w, h) == Leave(Expire(Moved(p), d, w, h), d, w, h)

\* n pushes of a new Particle (lines 478 and 499).
Particles(n, ds, w, h) == [i \in 1 .. n |-> Reset(ds[i], w, h)]

\* A faulty onResize that pushes without emptying the array first.
RepopulateAppends(ps, ds, w, h) == ps \o Particles(ParticleCount(w, h), ds, w, h)

\* Lines 496-499: the array is emptied, and newCount particles are pushed.
Repopulate(ps, ds, w, h) == Particles(ParticleCount(w, h), ds, w, h)

\* The loop of frame() (485-488).
FrameBody(ps, ds, w, h) == [i \in 1 .. Len(ps) |-> Step(ps[i], ds[i], w, h)]

\* The most particles a window of Viewports gets.
MaxParticles ==
    CHOOSE n \in 0 .. 8 :
        /\ \A v \in Viewports : ParticleCount(v.w, v.h) <= n
        /\ \E v \in Viewports : ParticleCount(v.w, v.h) = n

\* The frames requested before the model stops the loop.
MaxFrames == 3

nonCanvas == <<formVars, navOpen, hashListener, navEvent, activeMini,
               progress, scrollY, scrollHeight, innerHeight,
               miniVars, dirtyLeft, ctaVars>>

\* raf = requestAnimationFrame(frame), after the callback `done` has run.
RequestFrame(done) ==
    /\ lastFrameId' = lastFrameId + 1
    /\ raf' = lastFrameId + 1
    /\ pendingFrames' = (pendingFrames \ done) \cup {lastFrameId + 1}

\* The effect of line 421: the particles are made for the window as it is,
\* frame() is called once (491) and onResize is attached (501).
Mount(ds, rs) ==
    /\ canvas = "idle"
    /\ canvas' = "mounted"
    /\ width' = viewport.w /\ height' = viewport.h
    /\ particles' = FrameBody(Particles(ParticleCount(viewport.w, viewport.h),
                                        ds, viewport.w, viewport.h),
                              rs, viewport.w, viewport.h)
    /\ RequestFrame({})
    /\ resizeListener' = TRUE
    /\ UNCHANGED <<viewport, nonCanvas>>

\* The browser runs the frame callback it holds under the handle id.
Frame(id, ds) ==
    /\ id \in pendingFrames
    /\ lastFrameId < MaxFrames
    /\ particles' = FrameBody(particles, ds, width, height)
    /\ RequestFrame({id})
    /\ UNCHANGED <<canvas, viewport, width, height, resizeListener, nonCanvas>>

\* The window takes the size v; onResize (493-500) runs if it is attached.
WindowResize(v, ds) ==
    /\ viewport' = v
    /\ IF resizeListener
       THEN /\ width' = v.w /\ height' = v.h
            /\ particles' = Repopulate(particles, ds, v.w, v.h)
       ELSE UNCHANGED <<width, height, particles>>
    /\ UNCHANGED <<canvas, raf, lastFrameId, pendingFrames, resizeListener,
                   nonCanvas>>

\* A faulty cleanup that cancels the handle raf had when the effect was set
\* up (line 480), which is 0.
UnmountCancelsStale ==
    /\ canvas = "mounted"
    /\ canvas' = "unmounted"
    /\ pendingFrames' = pendingFrames \ {0}
    /\ resizeListener' = FALSE
    /\ UNCHANGED <<viewport, width, height, particles, raf, lastFrameId,
                   nonCanvas>>

\* The cleanup of the effect (502-505).
Unmount ==
    /\ canvas = "mounted"
    /\ canvas' = "unmounted"
    /\ pendingFrames' = pendingFrames \ {raf}
    /\ resizeListener' = FALSE
    /\ UNCHANGED <<viewport, width, height, particles, raf, lastFrameId,
                   nonCanvas>>

\* One call of step() on the particle i, outside the loop of frame().
StepParticle(i, d) ==
    /\ canvas = "mounted"
    /\ i \in 1 .. Len(particles)
    /\ particles' = [particles EXCEPT ![i] = Step(@, d, width, height)]
    /\ UNCHANGED <<canvas, viewport, width, height, raf, lastFrameId,
                   pendingFrames, resizeListener, nonCanvas>>

\* The particle background with its frame loop, window and cleanup.
NextCanvas ==
    \/ \E ds \in DrawSeqs(EqualDraws, MaxParticles) :
           \E rs \in DrawSeqs(EqualDraws, MaxParticles) : Mount(ds, rs)
    \/ \E id \in 1 .. MaxFrames : \E ds \in DrawSeqs(EqualDraws, MaxParticles) :
           Frame(id, ds)
    \/ \E v \in Viewports : \E ds \in DrawSeqs(EqualDraws, MaxParticles) :
           WindowResize(v, ds)
    \/ Unmount

\* The Particle class on its own: the particles the effect makes for the
\* window of the load, each stepped any number of times.
NextParticle ==
    \/ \E ds \in DrawSeqs(Draws, 1) :
           \E rs \in DrawSeqs(EqualDraws, 1) : Mount(ds, rs)
    \/ \E i \in 1 .. MaxParticles : \E d \in Draws : StepParticle(i, d)

(***************************************************************************)
(* CTABox (1245-1254).                                                     *)
(***************************************************************************)
nonCta == <<formVars, navOpen, hashListener, navEvent, activeMini,
            progress, scrollY, scrollHeight, innerHeight,
            miniVars, dirtyLeft, canvasVars>>

\* The effect of line 1248 starts the interval.
StartSlotTimer ==
    /\ slotTimer = "idle"
    /\ slotTimer' = "running"
    /\ UNCHANGED <<slots, nonCta>>

\* A faulty interval callback without the test s > 2.
SlotTickNoFloor(over) ==
    /\ slotTimer = "running"
    /\ slots' = slots - (IF over THEN 1 ELSE 0)
    /\ UNCHANGED <<slotTimer, nonCta>>

\* One firing of the interval (1250-1252); over is Math.random() > 0.8.
SlotTick(over) ==
    /\ slotTimer = "running"
    /\ slots' = IF slots > 2 THEN slots - (IF over THEN 1 ELSE 0) ELSE slots
    /\ UNCHANGED <<slotTimer, nonCta>>

\* The cleanup of line 1253.
ClearSlotTimer ==
    /\ slotTimer = "running"
    /\ slotTimer' = "cleared"
    /\ UNCHANGED <<slots, nonCta>>

NextCta ==
    \/ StartSlotTimer
    \/ \E over \in BOOLEAN : SlotTick(over)
    \/ ClearSlotTimer

(***************************************************************************)
(* The components side by side: the contact form, the menu, the portfolio  *)
(* with its panels, the scroll effect and the CTA box, each with a few of  *)
(* its inputs.                                                             *)
(***************************************************************************)
NextSiteForm ==
    \/ SetName(<<"a">>)
    \/ SetEmail(<<"a", "@", "a", ".", "a">>)
    \/ SetHp(<<"x">>)
    \/ Submit
    \/ \E i \in 1 .. Len(calls) :
           \/ FetchResolvedOk(i) \/ FetchResolvedNotOk(i)
           \/ TextResolved(i) \/ AwaitRejected(i)

NextSitePage ==
    \/ ToggleNav \/ ClickMenuLink \/ HashChange
    \/ \E k \in MiniSiteKeys : ClickMiniTab(k)
    \/ ClickNavPortfolio
    \/ SetResName(<<"n">>) \/ ClickReserve
    \/ SetQuery(<<"l", "o", "f", "t">>)
    \/ SetPlan("free")

NextSiteWindow ==
    \/ \E y \in 0 .. 1 : ScrollEvent(y)
    \/ \E ih \in 1 .. 2 : ResizeEvent(2, ih)
    \/ StartSlotTimer
    \/ \E over \in BOOLEAN : SlotTick(over)

NextSite == NextSiteForm \/ NextSitePage \/ NextSiteWindow

(***************************************************************************)
(* The state after the first render, as its effects are about to run: the  *)
(* effects of App (66-88) leave that state as it is, those of              *)
(* CanvasParticles and CTABox are the actions Mount and StartSlotTimer.    *)
(***************************************************************************)
InitForm ==
    /\ name = Empty /\ company = Empty /\ email = Empty
    /\ budget = "749" /\ message = Empty /\ maintenance = FALSE
    /\ loading = FALSE /\ success = None /\ error = None
    /\ hp = Empty
    /\ calls = <<>>

\* The page is loaded at its top; one viewport of two page heights.
Init ==
    /\ InitForm
    /\ navOpen = FALSE /\ hashListener = RouteListener(FALSE) /\ navEvent = "none"
    /\ activeMini = "restaurant"
    /\ scrollY = 0 /\ scrollHeight = 2 /\ innerHeight = 1
    /\ progress = HandleScroll(0, 2, 1)
    /\ InitMinis /\ dirtyLeft = "none"
    /\ canvas = "idle" /\ viewport = [w |-> 150, h |-> 150]
    /\ width = 0 /\ height = 0 /\ particles = <<>>
    /\ raf = 0 /\ lastFrameId = 0 /\ pendingFrames = {}
    /\ resizeListener = FALSE
    /\ slots = 6 /\ slotTimer = "idle"

Next == NextForm \/ NextPage \/ NextScroll \/ NextCanvas \/ NextCta

Spec == Init /\ [][Next]_vars

SpecForm == Init /\ [][NextForm]_vars

\* An awaited promise of handleSubmit settles: the response arrives, its body
\* is read, or the promise rejects.
Settle ==
    \E i \in 1 .. Len(calls) :
        \/ FetchResolvedOk(i) \/ FetchResolvedNotOk(i)
        \/ TextResolved(i) \/ AwaitRejected(i)

\* The contact form in a browser that settles every promise it has handed
\* out: a fetch ends with a response or an error, and so does res.text().
SpecFormFair == Init /\ [][NextForm]_vars /\ WF_vars(Settle)

SpecPage == Init /\ [][NextPage]_vars

SpecScroll == Init /\ [][NextScroll]_vars

SpecCanvas == Init /\ [][NextCanvas]_vars

SpecParticle == Init /\ [][NextParticle]_vars

\* The real-estate panel on its own: the queries with two of their
\* substrings, and the prices at which a listing enters or leaves the list.
EstateQueries == QueryInputs \cup { <<"S">>, <<"o","f">> }

EstatePrices ==
    PriceInputs \cap
        ( { SliderMin, 500000 }
          \cup { sampleHouses[k].price : k \in 1..Len(sampleHouses) }
          \cup { sampleHouses[k].price - SliderStep : k \in 1..Len(sampleHouses) } )

NextEstate ==
    \/ \E k \in MiniSiteKeys : ClickMiniTab(k)
    \/ \E v \in EstateQueries : SetQuery(v)
    \/ \E v \in BedsOptions : SetBeds(v)
    \/ \E v \in EstatePrices : SetMaxPrice(v)

SpecEstate == Init /\ [][NextEstate]_vars

SpecCta == Init /\ [][NextCta]_vars

\* The two decorations that run on timers of the browser, side by side: the
\* particle background and the slots counter.
NextAmbient == NextCanvas \/ NextCta

SpecAmbient == Init /\ [][NextAmbient]_vars

SpecSite == Init /\ [][NextSite]_vars

(***************************************************************************)
(* Claims about the contact form, checked under SpecForm.                  *)
(***************************************************************************)
NameIsBlank == \A i \in 1..Len(name) : name[i] = " "

\* C1: a submit with an empty or white-space-only name issues no network call
\* and ends with the error "Nom requis.", whatever the other fields hold.
C1_BlankNameRejected ==
    [][(HandleSubmit /\ NameIsBlank)
          => (calls' = calls /\ error' = Some(ErrName))]_vars

\* A white-space-only name was refused although e-mail and honeypot pass.
C1_Witness ==
    /\ error = Some(ErrName) /\ name = <<" ">>
    /\ email = <<"a", "@", "a", ".", "a">> /\ hp = Empty
    /\ calls = <<>> /\ ~loading

\* The e-mail has an "@" preceded by a non-space character and followed by a
\* space-free domain segment, a dot, and a non-space character.
HasAtAndDottedDomain(e) ==
    \E a \in 2..Len(e) : \E d \in (a + 2)..(Len(e) - 1) :
        /\ e[a] = "@" /\ e[a - 1] # " "
        /\ e[d] = "." /\ e[d + 1] # " "
        /\ \A k \in (a + 1)..(d - 1) : e[k] # " "

\* C2: a submit whose e-mail lacks an "@" followed by a domain segment with a
\* dot is rejected (an error is shown) and issues no network call.
C2_MalformedEmailRejected ==
    [][(HandleSubmit /\ ~HasAtAndDottedDomain(email))
          => (calls' = calls /\ error' # None /\ UNCHANGED loading)]_vars

\* An e-mail with an "@" but no dot was refused under a good name.
C2_Witness ==
    /\ error = Some(ErrEmail) /\ email = <<"a", "@", "a">>
    /\ name = <<"a">> /\ hp = Empty /\ calls = <<>> /\ ~loading

\* C3: a submit with a non-empty honeypot is blocked: no network call is
\* issued and loading is not set, whatever name and e-mail hold.
C3_HoneypotBlocks ==
    [][(HandleSubmit /\ hp # Empty)
          => (calls' = calls /\ ~loading' /\ error' # None)]_vars

\* The honeypot alone stopped a submit whose name and e-mail pass.
C3_Witness ==
    /\ error = Some(ErrBot) /\ hp # Empty
    /\ name = <<"a">> /\ email = <<"a", "@", "a", ".", "a">>
    /\ calls = <<>> /\ ~loading

\* C4: when a submission's OK response has been handled, every field (name,
\* e-mail, company, message, budget, maintenance, honeypot) holds its initial
\* value and the success message is shown, whatever was typed meanwhile.
C4_SuccessResetsEveryField ==
    [][(\E i \in 1..Len(calls) : FetchResolvedOk(i))
          => /\ name' = Empty /\ email' = Empty /\ company' = Empty
             /\ message' = Empty /\ budget' = "749" /\ maintenance' = FALSE
             /\ hp' = Empty
             /\ success' = Some(OkMessage)]_vars

InFlight(cs) == Cardinality({ i \in 1..Len(cs) : cs[i].stage = "fetch" })

FailureHandled == \E i \in 1..Len(calls) : TextResolved(i) \/ AwaitRejected(i)

\* C7: when a submission fails (non-OK response, or a rejected promise) an
\* error and no success message is shown and the attempt issues no further
\* request; a request is issued only by a submit, one per submit.
C7_FailureIsTerminal ==
    [][/\ FailureHandled
          => /\ error' \in {Some(ErrSend), Some(ErrNetwork)}
             /\ success' = None
             /\ Len(calls') = Len(calls) - 1
       /\ InFlight(calls') > InFlight(calls)
          => /\ HandleSubmit
             /\ InFlight(calls') = InFlight(calls) + 1]_vars

\* A non-OK response was handled and nothing is in flight any more.
C7_Witness ==
    /\ error = Some(ErrSend) /\ success = None /\ calls = <<>> /\ ~loading

\* C8: a failed submission leaves every form field as it was and ends with
\* loading = false, so that the same data can be submitted again.
C8_FailureKeepsFields ==
    [][/\ (\E i \in 1..Len(calls) : FetchResolvedNotOk(i)) => UNCHANGED formFields
       /\ FailureHandled => (UNCHANGED formFields /\ ~loading')
       /\ (FailureHandled /\ calls' = <<>>) => (ENABLED Submit)']_vars

\* After a network error the data typed is still there and can be resubmitted.
C8_Witness ==
    /\ error = Some(ErrNetwork) /\ ~loading /\ calls = <<>>
    /\ name = <<"a">> /\ email = <<"a", "@", "a", ".", "a">>
    /\ company = <<"c">> /\ message = <<"m">> /\ budget = "3000" /\ maintenance

(***************************************************************************)
(* Claims about the real-estate filter, the menu and the portfolio,        *)
(* checked under SpecPage.                                                 *)
(***************************************************************************)
\* Two characters that are the same letter, whatever their case.
SameLetter(a, b) ==
    \/ a = b
    \/ \E u \in 1..Len(UpperCase) :
          {a, b} = {UpperCase[u], LowerCase[u]}

\* The text holds q as a run of consecutive characters, case ignored.
ContainsIgnoringCase(text, q) ==
    \E off \in 0..(Len(text) - Len(q)) :
        \A k \in 1..Len(q) : SameLetter(text[off + k], q[k])

Satisfies(h) ==
    /\ h.price <= filters.maxPrice
    /\ h.beds >= filters.beds
    /\ ContainsIgnoringCase(h.title, query)

House(id) == CHOOSE h \in { sampleHouses[i] : i \in 1..Len(sampleHouses) } : h.id = id

\* C5: every listing the real-estate filter displays has price <= the chosen
\* maximum, bedrooms >= the chosen minimum and a title that contains the
\* query, case ignored; the "no results" message is displayed exactly when
\* the result list is empty.
C5_FilterShowsOnlyMatches ==
    activeMini = "realestate" =>
        /\ \A i \in 1..Len(ResultCards) : Satisfies(House(ResultCards[i]))
        /\ NoResultsMessage <=> (Len(ResultCards) = 0)
        /\ NoResultsMessage <=>
              ~(\E i \in 1..Len(sampleHouses) : Satisfies(sampleHouses[i]))

\* An upper-case query displays the loft, whose title has it in lower case.
C5_Witness ==
    /\ activeMini = "realestate"
    /\ query = <<"L","O","F","T">>
    /\ ResultCards = <<1>>
    /\ ~NoResultsMessage

\* C9: after a hashchange event has been handled the menu is closed, whether
\* the toggle button had just opened it or not.
C9_RouteChangeClosesNav ==
    navEvent \in {"handleRoute", "hashchange"} => ~navOpen

\* The route handler has run, which it does only for a menu that was open,
\* and the menu is closed.
C9_Witness ==
    navEvent = "handleRoute" /\ ~navOpen /\ ~hashListener

PanelOf(k) ==
    CASE k = "restaurant" -> "RestaurantMiniSite"
      [] k = "realestate" -> "RealEstateMiniSite"
      [] k = "saas"       -> "SaaSMiniSite"

\* C10: the active portfolio selection is always one of the three tags, is
\* "restaurant" at first, changes only by a click on a selector (a portfolio
\* tab or the Portfolio link of the navigation bar), and exactly one demo
\* panel is rendered, the one of the selection.
C10_OneActivePanel ==
    /\ activeMini = "restaurant"
    /\ [](/\ activeMini \in MiniSiteKeys
          /\ Cardinality(RenderedPanels) = 1
          /\ RenderedPanels = {PanelOf(activeMini)})
    /\ [][activeMini' # activeMini =>
             \/ \E k \in MiniSiteKeys : ClickMiniTab(k) \/ ClickPreviewButton(k)
             \/ ClickNavPortfolio]_vars

\* The SaaS tab was chosen and its panel, alone, is rendered.
C10_Witness ==
    activeMini = "saas" /\ RenderedPanels = {"SaaSMiniSite"}

(***************************************************************************)
(* The claim about scroll progress, checked under SpecScroll.              *)
(***************************************************************************)
IsZero(p) == p.n = 0 /\ p.d > 0
IsOne(p)  == p.n = p.d /\ p.d > 0
InUnitInterval(p) == p.d > 0 /\ 0 <= p.n /\ p.n <= p.d

\* p is clamp(y / t, 0, 1) as floating-point arithmetic gives it: y / 0 is
\* +Infinity, -Infinity or, for y = 0, NaN, which no number equals.
IsClampedQuotient(p, y, t) ==
    IF t = 0
    THEN IF y > 0 THEN IsOne(p) ELSE IF y < 0 THEN IsZero(p) ELSE FALSE
    ELSE IF y * t <= 0 THEN IsZero(p)
    ELSE IF y * y >= t * t THEN IsOne(p)
    ELSE p.n * t = y * p.d

\* C6 as stated: progress is in [0,1] and equals
\* clamp(scrollY / (scrollHeight - innerHeight), 0, 1) for the latest event.
C6_ProgressIsClampedQuotient ==
    /\ InUnitInterval(progress)
    /\ IsClampedQuotient(progress, scrollY, scrollHeight - innerHeight)

\* C6, amended: progress is in [0,1]; it equals
\* clamp(scrollY / (scrollHeight - innerHeight), 0, 1) for the latest event
\* when scrollHeight - innerHeight > 0, and is 0 when the page does not
\* scroll (scrollHeight - innerHeight <= 0).
C6_ProgressClamped ==
    /\ InUnitInterval(progress)
    /\ IF scrollHeight - innerHeight > 0
       THEN IsClampedQuotient(progress, scrollY, scrollHeight - innerHeight)
       ELSE IsZero(progress)

\* The page is scrolled past its bottom and the progress is 1.
C6_Witness ==
    /\ scrollHeight - innerHeight > 0
    /\ scrollY > scrollHeight - innerHeight
    /\ IsOne(progress)

(***************************************************************************)
(* Claims about the particle background, checked under SpecCanvas and      *)
(* SpecParticle.                                                           *)
(***************************************************************************)
\* n is the integer nearest to a / b, the upper one of two equally near.
NearestInteger(n, a, b) == (2 * n - 1) * b <= 2 * a /\ 2 * a < (2 * n + 1) * b

\* The particle is new: it has not lived, and it lies inside the canvas.
Fresh(p) ==
    /\ p.life = 0
    /\ 0 <= p.x /\ p.x <= width' * Scale
    /\ 0 <= p.y /\ p.y <= height' * Scale

\* C11: while the background is mounted, the number of particles is
\* round(width * height / 45000) for the window as it is now; a frame leaves
\* the number of particles as it was, and a resize leaves only new particles.
C11_CountFollowsViewport ==
    /\ [](canvas = "mounted" =>
             /\ width = viewport.w /\ height = viewport.h
             /\ NearestInteger(Len(particles), viewport.w * viewport.h, 45000))
    /\ [][ (\E id \in 1 .. MaxFrames :
               \E ds \in DrawSeqs(EqualDraws, MaxParticles) : Frame(id, ds))
           => Len(particles') = Len(particles) ]_vars
    /\ [][ (canvas = "mounted" /\
            \E v \in Viewports :
               \E ds \in DrawSeqs(EqualDraws, MaxParticles) : WindowResize(v, ds))
           => \A i \in 1 .. Len(particles') : Fresh(particles'[i]) ]_vars

\* Two particles, for a window of 1.5 times 45000 pixels reached by a resize,
\* after frames have run.
C11_Witness ==
    /\ canvas = "mounted" /\ lastFrameId >= 2
    /\ viewport.w * viewport.h = 67500 /\ Len(particles) = 2

\* C12: once the background is unmounted the browser holds no frame callback
\* and onResize is detached, so that no frame runs and no resize changes the
\* particles; the handle the cleanup cancels is the one pending.
C12_UnmountReleases ==
    /\ [](canvas = "unmounted" => pendingFrames = {} /\ ~resizeListener)
    /\ [][ canvas = "unmounted" =>
              UNCHANGED <<particles, width, height, raf, lastFrameId>> ]_vars
    /\ [][ canvas = "mounted" /\ canvas' = "unmounted" =>
              pendingFrames = {raf} /\ pendingFrames' = {} ]_vars

\* Unmounted after several frames, and the window resized since.
C12_Witness ==
    /\ canvas = "unmounted" /\ lastFrameId >= 2
    /\ Len(particles) > 0
    /\ viewport # [w |-> width, h |-> height]

\* The particle is at most 10 pixels outside the canvas, on every side.
NearCanvas(p) ==
    /\ -1000 <= p.x /\ p.x <= width * 100 + 1000
    /\ -1000 <= p.y /\ p.y <= height * 100 + 1000

\* step() on p resets it: p outlives maxLife, or its move takes it more than
\* 10 pixels outside the canvas.
MustReset(p) ==
    \/ p.life + 1 > p.maxLife
    \/ ~NearCanvas([p EXCEPT !.x = p.x + p.vx, !.y = p.y + p.vy])

\* C13: every particle has life <= maxLife and lies at most 10 pixels outside
\* the canvas; a step() that takes a particle past maxLife or farther out
\* leaves it with life 0, inside the canvas.
C13_StepKeepsParticleInRange ==
    /\ [](canvas = "mounted" =>
             \A i \in 1 .. Len(particles) :
                 particles[i].life <= particles[i].maxLife /\ NearCanvas(particles[i]))
    /\ [][ \A i \in 1 .. Len(particles) :
              ((\E d \in Draws : StepParticle(i, d)) /\ MustReset(particles[i]))
              => Fresh(particles'[i]) ]_vars

\* A particle that a step() has reset: the steps of SpecParticle are the only
\* ones to leave a particle with life 0.
C13_Witness ==
    /\ canvas = "mounted"
    /\ \E i \in 1 .. Len(particles) : particles[i].life = 0

(***************************************************************************)
(* Claims about the components side by side, checked under SpecSite.       *)
(***************************************************************************)
\* The step belongs to a submission: it rejects, starts or ends one, which
\* shows in the messages, in loading or in the requests under way.
SubmissionStep == <<error, success, loading, calls>>' # <<error, success, loading, calls>>

\* C14: a step of a contact-form submission leaves the menu, the active
\* portfolio tab, the scroll progress, the slots counter and the state of the
\* demo panels as they were.
C14_SubmissionTouchesFormOnly ==
    [][ SubmissionStep =>
          UNCHANGED <<navOpen, activeMini, progress, slots, miniVars>> ]_vars

\* A submission has succeeded while every other component is away from its
\* initial state.
C14_Witness ==
    /\ success = Some(OkMessage)
    /\ navOpen /\ activeMini = "saas" /\ plan = "free"
    /\ slots < 6 /\ IsOne(progress)

(***************************************************************************)
(* Further claims about the contact form, checked under SpecForm.          *)
(***************************************************************************)
\* The name has a character other than a space, the e-mail has the shape the
\* form asks for, and the hidden field is empty.
ChecksPass == ~NameIsBlank /\ HasAtAndDottedDomain(email) /\ hp = Empty

\* The request r carries the fields as they are in the state before the step.
CarriesFields(r) ==
    /\ r.method = "POST"
    /\ r.body.api_key = "WEB3FORMS_API_KEY_PLACEHOLDER"
    /\ Len(r.body.subject) > 0
    /\ r.body.name = name /\ r.body.email = email /\ r.body.company = company
    /\ Len(r.body.message) >= Len(message)
    /\ SubSeq(r.body.message, 1, Len(message)) = message

\* C15: a request appears only in a step made from a state where the three
\* checks pass, it is a POST whose payload carries name, email, company and
\* message of that state with a subject and the API key placeholder, and no
\* later step changes a request that is under way.
C15_RequestCarriesSubmittedFields ==
    /\ [][ Len(calls') > Len(calls) =>
              /\ ChecksPass
              /\ Len(calls') = Len(calls) + 1
              /\ CarriesFields(calls'[Len(calls')]) ]_vars
    /\ [][ Len(calls') = Len(calls) =>
              \A i \in 1 .. Len(calls) :
                  /\ calls'[i].body = calls[i].body
                  /\ calls'[i].method = calls[i].method ]_vars

\* The name was emptied while the request that carries "a" is under way.
C15_Witness ==
    /\ Len(calls) = 1 /\ loading
    /\ calls[1].body.name = <<"a">> /\ name = Empty
    /\ calls[1].body.email = <<"a", "@", "a", ".", "a">>

\* The step shows one of the three messages of the local checks.
RejectionStep ==
    /\ error' # error
    /\ error' \in { Some(ErrName), Some(ErrEmail), Some(ErrBot) }

\* C16: a submit that a local check rejects leaves every field and loading
\* as they were, with loading false, and sends nothing.
C16_RejectionKeepsForm ==
    [][ (RejectionStep \/ (HandleSubmit /\ ~ChecksPass)) =>
           /\ UNCHANGED <<name, company, email, budget, message, maintenance, hp>>
           /\ UNCHANGED loading /\ ~loading'
           /\ calls' = calls ]_vars

\* A filled form was refused for its hidden field, and is still filled.
C16_Witness ==
    /\ error = Some(ErrBot) /\ ~loading /\ calls = <<>>
    /\ name = <<"a">> /\ email = <<"a", "@", "a", ".", "a">> /\ hp # Empty
    /\ company # Empty /\ message # Empty /\ maintenance /\ budget # "749"

(***************************************************************************)
(* Claims about the portfolio tabs and the menu, checked under SpecSite.   *)
(***************************************************************************)
\* C17: a change of the active tab shows a panel whose state has its initial
\* values, also when that panel was left with other values before, and it
\* leaves the state of the contact form as it was.
C17_TabSwitchResetsPanel ==
    [][ activeMini' # activeMini =>
          /\ resName' = Empty /\ people' = 2 /\ time' = "20:00" /\ ~confirmed'
          /\ query' = Empty /\ filters' = [beds |-> 2, maxPrice |-> 500000]
          /\ plan' = "pro" /\ ~trial'
          /\ UNCHANGED <<name, company, email, budget, message, maintenance,
                         loading, success, error, hp, calls>> ]_vars

\* Back on the reservation panel, which was left with edited state and shows
\* its empty form again, while the contact form holds what was typed.
C17_Witness ==
    /\ dirtyLeft = "restaurant" /\ activeMini = "restaurant"
    /\ resName = Empty /\ ~confirmed
    /\ name = <<"a">> /\ loading

\* The step is a user action other than on the menu: it changes the active
\* tab, a demo panel, the contact form's fields or the scroll metrics.
OtherUserAction ==
    \/ activeMini' # activeMini
    \/ miniVars' # miniVars
    \/ formFields' # formFields
    \/ <<scrollY, scrollHeight, innerHeight>>' # <<scrollY, scrollHeight, innerHeight>>

C19_OneMessageAtMost ==
    /\ [](error = None \/ success = None)
    /\ [][ (~loading /\ loading') => (error' = None /\ success' = None) ]_vars
    /\ [][ (error' # None /\ error' # error) => success' = None ]_vars
    /\ [][ (success' # None /\ success' # success) => error' = None ]_vars

\* The form shows the error of a failed request, and no success message,
\* with the fields the request was made from.
C19_Witness ==
    /\ error = Some(ErrSend) /\ success = None /\ ~loading
    /\ name = <<"a">> /\ hp = Empty /\ company # Empty

\* C20: loading is true exactly while a request is under way; it becomes true
\* only in a step made from a state where the three checks pass, which starts
\* one request; and every request under way ends, with loading false.
C20_LoadingTracksRequest ==
    /\ [](loading <=> calls # <<>>)
    /\ [][ (~loading /\ loading') =>
              (ChecksPass /\ Len(calls') = Len(calls) + 1) ]_vars
    /\ (loading ~> (~loading /\ calls = <<>>))

\* The response of the request under way was not OK, and its body is being
\* read: loading is still true.
C20_Witness ==
    /\ loading /\ Len(calls) = 1 /\ calls[1].stage = "text"
    /\ error = None /\ success = None

(***************************************************************************)
(* Claims about concurrent submits and the order of the local checks,      *)
(* checked under SpecForm.                                                 *)
(***************************************************************************)
\* C21: at most one request of the contact form is under way in every state,
\* and a request starts only from a state where none is under way, however
\* submits, inputs and responses interleave.
C21_OneRequestAtATime ==
    /\ [](Len(calls) <= 1)
    /\ [][ Len(calls') > Len(calls) => (calls = <<>> /\ ~loading) ]_vars

\* A request is under way while the form holds values that pass the three
\* checks: only the disabled button keeps a second request from starting.
C21_Witness ==
    /\ Len(calls) = 1 /\ loading /\ calls[1].stage = "fetch"
    /\ ChecksPass /\ company = Empty

\* C22: a rejected submit shows one message and no success message: "Nom
\* requis." if the name is blank; otherwise "Email invalide." if the e-mail
\* is malformed; otherwise "Bot detecte." if the hidden field is not empty.
C22_FirstFailingCheckWins ==
    [][ HandleSubmit =>
          /\ success' = None
          /\ NameIsBlank => error' = Some(ErrName)
          /\ (~NameIsBlank /\ ~HasAtAndDottedDomain(email)) => error' = Some(ErrEmail)
          /\ (~NameIsBlank /\ HasAtAndDottedDomain(email) /\ hp # Empty)
                => error' = Some(ErrBot) ]_vars

\* The three checks fail at once, and the message is that of the name.
C22_Witness ==
    /\ error = Some(ErrName) /\ success = None
    /\ NameIsBlank /\ ~HasAtAndDottedDomain(email) /\ hp # Empty

(***************************************************************************)
(* Claim about the slots counter of the CTA box, checked under SpecAmbient.*)
(***************************************************************************)
\* C23: slots is 6 until the interval runs and lies between 2 and 6 in every
\* state; a step leaves it as it was or takes 1 from it, a step from 2
\* leaves it at 2, and no step changes it once the interval is cleared.
C23_SlotsBetweenTwoAndSix ==
    /\ [](2 <= slots /\ slots <= 6)
    /\ [](slotTimer = "idle" => slots = 6)
    /\ [][ slots' = slots \/ slots' = slots - 1 ]_vars
    /\ [][ slots = 2 => slots' = 2 ]_vars
    /\ [][ slotTimer = "cleared" => (slots' = slots /\ slotTimer' = "cleared") ]_vars

\* The counter has come down to 2, and the box is unmounted.
C23_Witness == slots = 2 /\ slotTimer = "cleared"

(***************************************************************************)
(* Further claims about the demo panels, checked under SpecPage and        *)
(* SpecEstate.                                                             *)
(***************************************************************************)
\* C24: confirmed becomes true only in a step made on the restaurant panel
\* from a state whose name is not empty, a step that leaves name, people and
\* time as they were; a click on the reserve button with an empty name
\* changes nothing of the simulator; and from a confirmed state every step
\* that keeps the panel mounted keeps confirmed, name, people and time.
C24_ConfirmationIsFinal ==
    /\ [][ (~confirmed /\ confirmed') =>
              /\ activeMini = "restaurant" /\ Len(resName) > 0
              /\ UNCHANGED <<resName, people, time>> ]_vars
    /\ [][ (ClickReserve /\ Len(resName) = 0) =>
              (~confirmed' /\ UNCHANGED <<resName, people, time>>) ]_vars
    /\ [][ (confirmed /\ activeMini' = activeMini) =>
              (confirmed' /\ UNCHANGED <<resName, people, time>>) ]_vars

\* A reservation is confirmed, for values other than the initial ones.
C24_Witness ==
    /\ activeMini = "restaurant" /\ confirmed
    /\ resName = <<"n">> /\ people = 5 /\ time = "21:30"

\* The place of the listing with this id in the sample list.
Position(id) == CHOOSE k \in 1..Len(sampleHouses) : sampleHouses[k].id = id

\* The text part is a run of consecutive characters of the text whole.
IsSubstring(part, whole) ==
    \E off \in 0..(Len(whole) - Len(part)) :
        \A k \in 1..Len(part) : whole[off + k] = part[k]

\* The step changes the filters of the mounted panel, none of them to a
\* stricter one: the maximum price does not fall, the bedroom minimum does
\* not rise, and the new query is a substring of the old one.
FiltersLoosened ==
    /\ activeMini = "realestate" /\ activeMini' = "realestate"
    /\ filters'.maxPrice >= filters.maxPrice
    /\ filters'.beds <= filters.beds
    /\ IsSubstring(query', query)

\* C25: the result list holds the listings that satisfy the three conditions,
\* all of them and each once, in the order of the sample list; a step that
\* raises the maximum price, lowers the bedroom minimum or shortens the query
\* to a substring of itself keeps every listing that was displayed.
C25_ResultsExactAndMonotone ==
    /\ [](activeMini = "realestate" =>
             /\ \A i \in 1..Len(ResultCards) :
                    \E k \in 1..Len(sampleHouses) : sampleHouses[k].id = ResultCards[i]
             /\ \A k \in 1..Len(sampleHouses) :
                    Satisfies(sampleHouses[k]) <=>
                        \E i \in 1..Len(ResultCards) : ResultCards[i] = sampleHouses[k].id
             /\ \A i \in 1..Len(ResultCards) : \A j \in 1..Len(ResultCards) :
                    i < j => Position(ResultCards[i]) < Position(ResultCards[j]))
    /\ [][ FiltersLoosened =>
              \A i \in 1..Len(ResultCards) :
                  \E j \in 1..Len(ResultCards') : ResultCards'[j] = ResultCards[i] ]_vars

\* The query "S", the widest price and no bedroom minimum display the three
\* listings in the order of the sample list.
C25_Witness ==
    /\ activeMini = "realestate"
    /\ query = <<"S">> /\ filters.beds = 0 /\ filters.maxPrice >= 680000
    /\ ResultCards = <<1, 2, 3>>

====
